---- MODULE Spec2Model ----
(***************************************************************************)
(* Model of pkg/crdgo: the import registry (importsList.NeedImport), the   *)
(* generation driver (Generator.Generate and the codeWriter), the          *)
(* trivial-version collapse (toTrivialVersions) and the value serializer   *)
(* (generateValue / generateStructValue).                                  *)
(*                                                                         *)
(* Go strings are modelled as sequences of one-character strings, so that  *)
(* path.Split, strings.LastIndex, strings.Map and the digit-skipping loop  *)
(* are computed character by character as the code computes them.          *)
(***************************************************************************)
EXTENDS Integers, Sequences, FiniteSets, TLC

VARIABLES
    byPath,     \* importsList.byPath : import path -> alias
    byAlias,    \* importsList.byAlias: alias -> import path
    arg,        \* argument of the last NeedImport call
    ret,        \* value returned by the last NeedImport call
    cands,      \* aliases the last NeedImport call tried, in order
    g,          \* the Generator (its marker fields) of this process
    ctx,        \* what the GenerationContext holds: roots, kinds, packages
    last,       \* outcome of the most recent call of Generate
    prev,       \* outcome of the latest earlier call of Generate that began
                \* with an empty registry and wrote both files
    crd,        \* a v1beta1 CustomResourceDefinition (its Spec)
    orig,       \* the same descriptor as it was converted
    collapsed,  \* toTrivialVersions has been applied to crd
    val,        \* the value handed to GenerateValue
    typ,        \* its type
    expr,       \* the statement GenerateValue returned for it
    serialized  \* GenerateValue has been called on val

vars == <<byPath, byAlias, arg, ret, cands, g, ctx, last, prev,
          crd, orig, collapsed, val, typ, expr, serialized>>

\* the variables of the registry and the driver
genVars == <<byPath, byAlias, arg, ret, cands, g, ctx, last, prev>>

\* the variables of the trivial-version collapse
crdVars == <<crd, orig, collapsed>>

\* the variables of the value serializer
valVars == <<val, typ, expr, serialized>>

----------------------------------------------------------------------------
(* Characters and strings                                                  *)

Letters == {"a", "b", "c", "d", "e", "f", "g", "h", "i", "j", "k", "l", "m",
            "n", "o", "p", "q", "r", "s", "t", "u", "v", "w", "x", "y", "z"}

Digits == {"0", "1", "2", "3", "4", "5", "6", "7", "8", "9"}

\* unicode.IsLetter
IsLetter(r) == r \in Letters

\* unicode.IsDigit
IsDigit(r) == r \in Digits

EmptyStr == <<>>

\* the literal "/vendor/"
VendorMarker == <<"/", "v", "e", "n", "d", "o", "r", "/">>

\* s[i:] of Go, i counted from 0
From(s, i) == SubSeq(s, i + 1, Len(s))

\* strings.HasPrefix(s[i:], sub), i counted from 0
MatchAt(s, sub, i) ==
    /\ i + Len(sub) <= Len(s)
    /\ \A k \in 1..Len(sub) : s[i + k] = sub[k]

\* the last index at or below i where sub occurs in s, or -1
RECURSIVE LastIndexFrom(_, _, _)
LastIndexFrom(s, sub, i) ==
    IF i < 0 THEN -1
    ELSE IF MatchAt(s, sub, i) THEN i
    ELSE LastIndexFrom(s, sub, i - 1)

\* strings.LastIndex(s, sub): the 0-based index of the last occurrence, or -1
LastIndex(s, sub) == LastIndexFrom(s, sub, Len(s) - Len(sub))

\* path.Split: dir keeps its trailing slash, file is what follows the last slash
PathSplit(p) ==
    LET i == LastIndex(p, <<"/">>)
    IN  <<SubSeq(p, 1, i + 1), From(p, i + 1)>>

\* the loop that drops leading digits of nextWord
RECURSIVE SkipDigits(_)
SkipDigits(w) ==
    IF Len(w) > 0 /\ IsDigit(Head(w)) THEN SkipDigits(Tail(w)) ELSE w

\* the strings.Map call: every rune that is no letter, digit or '_' becomes '_'
MapRune(r) == IF IsLetter(r) \/ IsDigit(r) \/ r = "_" THEN r ELSE "_"

Sanitize(w) == [i \in 1..Len(w) |-> MapRune(w[i])]

----------------------------------------------------------------------------
(* importsList.NeedImport                                                  *)

\* the vendor-prefix stripping at the head of NeedImport
StripVendor(importPath) ==
    LET ind == LastIndex(importPath, VendorMarker)
    IN  IF ind # -1 THEN From(importPath, ind + 8) ELSE importPath

\* l.byAlias[alias]: the two-valued map read of the loop's post statement
AliasLookup(ba, alias) ==
    IF alias \in DOMAIN ba
    THEN [otherPath |-> ba[alias], exists |-> TRUE]
    ELSE [otherPath |-> EmptyStr, exists |-> FALSE]

\* the loop condition: exists && otherPath != importPath
LoopCond(look, importPath) == look.exists /\ look.otherPath # importPath

\* the loop body without its "x" suffix statement
AppendNothing(alias, restPath) == alias

\* the "x" suffix statement at the head of the loop body
AppendX(alias, restPath) ==
    IF restPath = EmptyStr THEN alias \o <<"x">> ELSE alias

\* One pass of the loop body followed by the post statement and the loop
\* condition; fuel counts the passes still allowed, and a run that uses
\* them all up is reported with done = FALSE.
RECURSIVE AliasLoop(_, _, _, _, _, _, _)
AliasLoop(ba, importPath, alias, restPath, nextWord, tried, fuel) ==
    LET alias1 == AppendX(alias, restPath)
        word   == Sanitize(SkipDigits(nextWord))
        alias2 == word \o alias1
        split  == IF Len(restPath) > 0
                  THEN PathSplit(SubSeq(restPath, 1, Len(restPath) - 1))
                  ELSE <<restPath, word>>
        look   == AliasLookup(ba, alias2)
        tried2 == Append(tried, alias2)
    IN  IF LoopCond(look, importPath)
        THEN IF fuel = 0
             THEN [alias |-> alias2, cands |-> tried2, done |-> FALSE]
             ELSE AliasLoop(ba, importPath, alias2, split[1], split[2],
                            tried2, fuel - 1)
        ELSE [alias |-> alias2, cands |-> tried2, done |-> TRUE]

\* passes after which the loop has certainly left: one per path segment and
\* one per alias already bound
LoopFuel(ba, importPath) == Len(importPath) + Cardinality(DOMAIN ba) + 1

\* The alias derivation of a path that has no alias yet.  The loop starts
\* with otherPath = "" and exists = true, so it is not entered at all for
\* the empty import path, and alias keeps the zero value of the map read.
DeriveAlias(ba, importPath) ==
    LET split == PathSplit(importPath)
    IN  IF LoopCond([otherPath |-> EmptyStr, exists |-> TRUE], importPath)
        THEN AliasLoop(ba, importPath, EmptyStr, split[1], split[2], <<>>,
                       LoopFuel(ba, importPath))
        ELSE [alias |-> EmptyStr, cands |-> <<>>, done |-> TRUE]

\* m[k] = v of a Go map
MapPut(m, k, v) == [x \in DOMAIN m \cup {k} |-> IF x = k THEN v ELSE m[x]]

\* alias, exists := l.byPath[importPath]
PathLookup(bp, importPath) ==
    IF importPath \in DOMAIN bp
    THEN [alias |-> bp[importPath], exists |-> TRUE]
    ELSE [alias |-> EmptyStr, exists |-> FALSE]

\* NeedImport with the early-return lookup made in byAlias instead of byPath
NeedImportCallWrongMap(bp, ba, p) ==
    LET importPath == StripVendor(p)
        hit == PathLookup(ba, importPath)
    IN  IF hit.exists
        THEN [byPath |-> bp, byAlias |-> ba, ret |-> hit.alias,
              cands |-> <<>>, done |-> TRUE]
        ELSE LET d == DeriveAlias(ba, importPath)
             IN  [byPath  |-> MapPut(bp, importPath, d.alias),
                  byAlias |-> MapPut(ba, d.alias, importPath),
                  ret |-> d.alias, cands |-> d.cands, done |-> d.done]

\* NeedImport as a function of the registry and its argument: the registry
\* after the call, the returned alias and the aliases tried.
NeedImportCall(bp, ba, p) ==
    LET importPath == StripVendor(p)
        hit == PathLookup(bp, importPath)
    IN  IF hit.exists
        THEN [byPath |-> bp, byAlias |-> ba, ret |-> hit.alias,
              cands |-> <<>>, done |-> TRUE]
        ELSE LET d == DeriveAlias(ba, importPath)
             IN  [byPath  |-> MapPut(bp, importPath, d.alias),
                  byAlias |-> MapPut(ba, d.alias, importPath),
                  ret |-> d.alias, cands |-> d.cands, done |-> d.done]

EmptyMap == [x \in {} |-> EmptyStr]

----------------------------------------------------------------------------
(* The import paths submitted to the registry                              *)

\* path segments: empty, letters, a digit, a character that is no identifier
\* character, and a segment mixing all of them
Words == {EmptyStr, <<"x">>, <<"a">>}

OddWords == {<<"1">>, <<"-">>, <<"1", "a", "-", "1">>}

Join2(u, w) == u \o <<"/">> \o w

Join3(u, v, w) == u \o <<"/">> \o v \o <<"/">> \o w

VendorWord == <<"v", "e", "n", "d", "o", "r">>

Paths ==
    Words \cup OddWords
    \cup {Join2(u, w) : u \in Words, w \in Words}
    \cup {Join3(u, <<"x">>, <<"x">>) : u \in {<<"a">>, <<"x">>}}
    \cup {Join3(<<"a">>, VendorWord, w) : w \in {EmptyStr, <<"x">>}}
    \cup {Join2(VendorWord, <<"x">>)}

\* bindings the registry may hold before further new paths are refused
MaxImports == 3

\* values of the driver's variables while only the registry is exercised
NoGenerator == [none |-> TRUE]

NoContext == [none |-> TRUE]

NoRun == [done |-> FALSE]

NoCRD == [none |-> TRUE]

NoValue == [none |-> TRUE]

----------------------------------------------------------------------------
(* Specification of the registry alone                                     *)

\* the registry as the package initialises it, and no call made yet
RegistryInit ==
    /\ byPath = EmptyMap
    /\ byAlias = EmptyMap
    /\ arg = EmptyStr
    /\ ret = EmptyStr
    /\ cands = <<>>

\* no Generator constructed and Generate not called
DriverIdle ==
    /\ g = NoGenerator
    /\ ctx = NoContext
    /\ last = NoRun
    /\ prev = NoRun

\* no descriptor handed to toTrivialVersions
CollapseIdle ==
    /\ crd = NoCRD
    /\ orig = NoCRD
    /\ collapsed = FALSE

\* no value handed to GenerateValue
SerializerIdle ==
    /\ val = NoValue
    /\ typ = NoValue
    /\ expr = NoValue
    /\ serialized = FALSE

InitImports ==
    /\ RegistryInit
    /\ DriverIdle
    /\ CollapseIdle
    /\ SerializerIdle

NeedImport(p) ==
    /\ \/ StripVendor(p) \in DOMAIN byPath
       \/ Cardinality(DOMAIN byPath) < MaxImports
    /\ LET r == NeedImportCall(byPath, byAlias, p)
       IN  /\ byPath' = r.byPath
           /\ byAlias' = r.byAlias
           /\ arg' = p
           /\ ret' = r.ret
           /\ cands' = r.cands
    /\ UNCHANGED <<g, ctx, last, prev>>
    /\ UNCHANGED crdVars
    /\ UNCHANGED valVars

NextImports == \E p \in Paths : NeedImport(p)

SpecImports == InitImports /\ [][NextImports]_vars

----------------------------------------------------------------------------
(* Claims about the registry                                               *)

\* the import path the last call worked on
LastPath == StripVendor(arg)

\* C1: no two distinct import paths are bound to the same alias, and the
\* alias -> path map agrees with the path -> alias map.
C1_AliasUnique ==
    /\ \A p \in DOMAIN byPath : \A q \in DOMAIN byPath :
            p # q => byPath[p] # byPath[q]
    /\ \A p \in DOMAIN byPath :
            byPath[p] \in DOMAIN byAlias /\ byAlias[byPath[p]] = p

\* C2: a call records the alias it returns; a call on a path that already
\* has an alias returns that alias and leaves both maps as they were; no
\* call changes or removes the alias recorded for another path.
C2_AliasStable ==
    [][ /\ StripVendor(arg') \in DOMAIN byPath'
        /\ ret' = byPath'[StripVendor(arg')]
        /\ \A p \in DOMAIN byPath :
                p \in DOMAIN byPath' /\ byPath'[p] = byPath[p]
        /\ StripVendor(arg') \in DOMAIN byPath =>
                /\ ret' = byPath[StripVendor(arg')]
                /\ byPath' = byPath
                /\ byAlias' = byAlias ]_vars

\* C2 witness: a path registered earlier was submitted again after other
\* paths were registered, and the call returned without deriving anything.
C2_Witness ==
    /\ Cardinality(DOMAIN byPath) = MaxImports
    /\ LastPath # EmptyStr
    /\ cands = <<>>
    /\ ret = byPath[LastPath]
    /\ \E q \in DOMAIN byPath : q # LastPath /\ byPath[q] # ret

\* the final path segment with leading digits dropped and bad runes replaced
FinalSegmentAlias(importPath) == Sanitize(SkipDigits(PathSplit(importPath)[2]))

\* alias is bound to a path other than importPath
BoundElsewhere(ba, alias, importPath) ==
    alias \in DOMAIN ba /\ ba[alias] # importPath

\* C3: a path without an alias whose sanitized final segment is not bound to
\* a different path gets exactly that sanitized final segment as its alias.
C3_CandidateAlias ==
    [][ LET ip == StripVendor(arg')
        IN  (/\ ip \notin DOMAIN byPath
             /\ ~BoundElsewhere(byAlias, FinalSegmentAlias(ip), ip))
            => ret' = FinalSegmentAlias(ip) ]_vars

\* the path segments from the last one toward the root, each sanitized
RECURSIVE SegmentsFromEnd(_)
SegmentsFromEnd(p) ==
    LET split == PathSplit(p)
        word  == Sanitize(SkipDigits(split[2]))
    IN  IF split[1] = EmptyStr
        THEN <<word>>
        ELSE <<word>> \o SegmentsFromEnd(SubSeq(split[1], 1, Len(split[1]) - 1))

\* The sequence of candidates C10 describes: the k-th retry prepends the
\* next segment toward the root; once every segment is part of the
\* candidate, each further retry appends one "x".
RECURSIVE DescribedAlias(_, _, _, _, _, _)
DescribedAlias(ba, importPath, segs, k, alias, fuel) ==
    LET next == IF k <= Len(segs) THEN segs[k] \o alias ELSE alias \o <<"x">>
    IN  IF BoundElsewhere(ba, next, importPath) /\ fuel > 0
        THEN DescribedAlias(ba, importPath, segs, k + 1, next, fuel - 1)
        ELSE next

\* C10: on a collision of the first candidate, the returned alias is the
\* first free candidate of the described sequence.
C10_CollisionOrder ==
    [][ LET ip == StripVendor(arg')
        IN  (/\ ip \notin DOMAIN byPath
             /\ BoundElsewhere(byAlias, FinalSegmentAlias(ip), ip))
            => ret' = DescribedAlias(byAlias, ip, SegmentsFromEnd(ip), 1,
                                     EmptyStr, LoopFuel(byAlias, ip)) ]_vars

\* the call NeedImport(p) on the current registry ends, and when the path
\* has no alias yet it records the pair (path, alias) and nothing else: the
\* pair is in neither map before, both maps hold it after, and every other
\* key of either map keeps what it had
EndsWithOneBinding(p) ==
    LET ip == StripVendor(p)
        r  == NeedImportCall(byPath, byAlias, p)
    IN  /\ r.done
        /\ ip \notin DOMAIN byPath =>
              /\ ~(r.ret \in DOMAIN byAlias /\ byAlias[r.ret] = ip)
              /\ DOMAIN r.byPath = DOMAIN byPath \cup {ip}
              /\ Cardinality(DOMAIN r.byPath) = Cardinality(DOMAIN byPath) + 1
              /\ r.byPath[ip] = r.ret
              /\ \A q \in DOMAIN byPath : r.byPath[q] = byPath[q]
              /\ DOMAIN r.byAlias = DOMAIN byAlias \cup {r.ret}
              /\ r.byAlias[r.ret] = ip
              /\ \A a \in DOMAIN byAlias \ {r.ret} : r.byAlias[a] = byAlias[a]

\* C11: in every reachable registry and for every path, the alias loop of
\* NeedImport ends after finitely many passes, at most one per character of
\* the path and one per alias bound plus one, and the call records exactly
\* one new (path, alias) binding.
C11_Terminates == \A p \in Paths : EndsWithOneBinding(p)

\* C11 witness: the last call ran the loop for three passes or more, more
\* than its path has segments, because every candidate tried before the last
\* one was bound to another path, and it ended with its path bound to the
\* alias it returned.
C11_Witness ==
    /\ LastPath \in DOMAIN byPath
    /\ Len(cands) >= 3
    /\ Len(cands) > Len(SegmentsFromEnd(LastPath))
    /\ ret = cands[Len(cands)]
    /\ byPath[LastPath] = ret
    /\ byAlias[ret] = LastPath
    /\ \A i \in 1..(Len(cands) - 1) : BoundElsewhere(byAlias, cands[i], LastPath)

----------------------------------------------------------------------------
(* Generator.Generate and the codeWriter                                   *)

V1 == <<"v", "1">>

V1beta1 == <<"v", "1", "b", "e", "t", "a", "1">>

V2 == <<"v", "2">>

\* The last segments of the package paths of the serialized types,
\* "k8s.io/apiextensions-apiserver/pkg/apis/apiextensions/<version>" and
\* "k8s.io/apimachinery/pkg/apis/meta/v1".  Neither path holds the vendor
\* marker and no alias derivation reads further toward the root than these
\* segments, so the aliases are those of the full paths.
ApiextPrefix ==
    <<"a", "p", "i", "s", "/", "a", "p", "i", "e", "x", "t", "e", "n", "s",
      "i", "o", "n", "s", "/">>

Metav1Path == <<"a", "p", "i", "s", "/", "m", "e", "t", "a", "/", "v", "1">>

\* versions crd.AsVersion converts to; any other version is an error
KnownVersions == {V1, V1beta1}

AsVersionFails(ver) == ver \notin KnownVersions

\* crdVersions := g.CRDVersions, replaced by {"v1"} when empty
EffectiveVersions(gen) ==
    IF Len(gen.CRDVersions) = 0 THEN <<V1>> ELSE gen.CRDVersions

\* v1beta1Only without the test of the list's length
V1beta1First(crdVersions) ==
    Len(crdVersions) >= 1 /\ crdVersions[1] = V1beta1

\* v1beta1Only
V1beta1Only(crdVersions) ==
    Len(crdVersions) = 1 /\ crdVersions[1] = V1beta1

\* The switch on PreserveUnknownFields ("nil", "true" or "false"): "unset"
\* clears the field of versionedCRDs[0], "keep" leaves it, "error" returns.
PreserveSwitch(puf, v1beta1Only) ==
    CASE (puf = "nil" \/ puf = "true") /\ v1beta1Only -> "unset"
      [] puf = "nil" \/ puf = "false" -> "keep"
      [] OTHER -> "error"

ErrNone == "nil"
ErrPackageName == "missing package name"
ErrReadFile == "ctx.ReadFile failed"
ErrAsVersion == "crd.AsVersion failed"
ErrPreserve == "you may only set PreserveUnknownFields to true with v1beta1 CRDs"
ErrOpenScheme == "ctx.Open(zz.generated.scheme.go) failed"
ErrRenderScheme == "schemefile.Render failed"
ErrOpenCrds == "ctx.Open(zz.generated.crds.go) failed"
ErrRenderCrds == "crdsfile.Render failed"

\* the conversions of one kind, in the order of crdVersions: the index of
\* the first version crd.AsVersion rejects, or 0
FirstFailingVersion(crdVersions) ==
    LET bad == {i \in 1..Len(crdVersions) : AsVersionFails(crdVersions[i])}
    IN  IF bad = {} THEN 0 ELSE CHOOSE i \in bad : \A j \in bad : i <= j

\* The body of the loop over kubeKinds for one kind: the converted
\* descriptors, one per requested version, after the trivial-version
\* collapse and the PreserveUnknownFields switch; or the error returned.
VersionedCRDs(gen, crdVersions, kind) ==
    LET sw == PreserveSwitch(gen.PreserveUnknownFields, V1beta1Only(crdVersions))
    IN  IF FirstFailingVersion(crdVersions) # 0
        THEN [err |-> ErrAsVersion, crds |-> <<>>]
        ELSE IF sw = "error"
        THEN [err |-> ErrPreserve, crds |-> <<>>]
        ELSE [err |-> ErrNone,
              crds |-> [i \in 1..Len(crdVersions) |->
                  [kind |-> kind,
                   version |-> crdVersions[i],
                   trivial |-> gen.TrivialVersions /\ crdVersions[i] = V1beta1,
                   preserve |-> IF sw = "unset" /\ i = 1 THEN "nil" ELSE "false"]]]

\* crds[crdVersions[i]] = append(crds[crdVersions[i]], crd), for every i in order
RECURSIVE AppendAll(_, _, _, _)
AppendAll(crds, crdVersions, versioned, i) ==
    IF i > Len(crdVersions)
    THEN crds
    ELSE LET ver == crdVersions[i]
             old == IF ver \in DOMAIN crds THEN crds[ver] ELSE <<>>
         IN  AppendAll(MapPut(crds, ver, Append(old, versioned[i])),
                       crdVersions, versioned, i + 1)

\* the loop "for groupKind := range kubeKinds", the kinds visited in the
\* order the map iteration yields them
RECURSIVE KindsLoop(_, _, _, _, _)
KindsLoop(gen, crdVersions, kindOrder, k, crds) ==
    IF k > Len(kindOrder)
    THEN [err |-> ErrNone, crds |-> crds]
    ELSE LET one == VersionedCRDs(gen, crdVersions, kindOrder[k])
         IN  IF one.err # ErrNone
             THEN [err |-> one.err, crds |-> crds]
             ELSE KindsLoop(gen, crdVersions, kindOrder, k + 1,
                            AppendAll(crds, crdVersions, one.crds, 1))

\* codeWriter.GenerateScheme: the AddToScheme calls of init() in order, and
\* how far the file got ("absent", "opened" or "written")
GenerateScheme(context, gvOrder, fault) ==
    LET calls == <<"apiextensions/v1beta1", "apiextensions/v1">>
                 \o SelectSeq(gvOrder, LAMBDA pkg : pkg # context.metav1Pkg)
    IN  IF fault = "openScheme"
        THEN [err |-> ErrOpenScheme, file |-> "absent", calls |-> <<>>]
        ELSE IF fault = "renderScheme"
        THEN [err |-> ErrRenderScheme, file |-> "opened", calls |-> <<>>]
        ELSE [err |-> ErrNone, file |-> "written", calls |-> calls]

\* import paths GenerateValue asks the registry for while it serializes a
\* descriptor of the given version: the descriptor's own package, then the
\* package of its TypeMeta and ObjectMeta
ImportsOf(version) == <<ApiextPrefix \o version, Metav1Path>>

\* the NeedImport calls of a sequence of paths, one after the other
RECURSIVE NeedImports(_, _, _, _)
NeedImports(bp, ba, paths, lastCall) ==
    IF paths = <<>>
    THEN [byPath |-> bp, byAlias |-> ba, lastCall |-> lastCall]
    ELSE LET r == NeedImportCall(bp, ba, Head(paths))
         IN  NeedImports(r.byPath, r.byAlias, Tail(paths),
                         [arg |-> Head(paths), ret |-> r.ret, cands |-> r.cands])

\* the paths asked for while a list of m descriptors of one version is
\* serialized
RECURSIVE PathsOfList(_, _)
PathsOfList(version, m) ==
    IF m = 0 THEN <<>> ELSE ImportsOf(version) \o PathsOfList(version, m - 1)

\* the paths asked for by the loop "for version, list := range crds"
RECURSIVE PathsOfLists(_, _, _)
PathsOfLists(crds, verOrder, n) ==
    IF n > Len(verOrder)
    THEN <<>>
    ELSE PathsOfList(verOrder[n], Len(crds[verOrder[n]]))
         \o PathsOfLists(crds, verOrder, n + 1)

\* ASCII upper case of a lower-case letter (strArry[0] -= 32)
Upper(c) ==
    CASE c = "a" -> "A" [] c = "b" -> "B" [] c = "c" -> "C" [] c = "d" -> "D"
      [] c = "e" -> "E" [] c = "f" -> "F" [] c = "g" -> "G" [] c = "h" -> "H"
      [] c = "i" -> "I" [] c = "j" -> "J" [] c = "k" -> "K" [] c = "l" -> "L"
      [] c = "m" -> "M" [] c = "n" -> "N" [] c = "o" -> "O" [] c = "p" -> "P"
      [] c = "q" -> "Q" [] c = "r" -> "R" [] c = "s" -> "S" [] c = "t" -> "T"
      [] c = "u" -> "U" [] c = "v" -> "V" [] c = "w" -> "W" [] c = "x" -> "X"
      [] c = "y" -> "Y" [] c = "z" -> "Z" [] OTHER -> c

Capitalize(str) ==
    IF Len(str) < 1 THEN EmptyStr ELSE <<Upper(str[1])>> \o Tail(str)

\* codeWriter.GenerateCrds: the functions of the values file in order, each
\* with its list of descriptors; how far the file got; and the import paths
\* handed to the registry by the GenerateValue calls, which precede the
\* opening of the file.
GenerateCrds(crds, verOrder, fault) ==
    LET funcs == [n \in 1..Len(verOrder) |->
                    [name |-> <<"N", "e", "w">> \o Capitalize(verOrder[n])
                              \o <<"C", "R", "D", "s">>,
                     values |-> crds[verOrder[n]]]]
        paths == PathsOfLists(crds, verOrder, 1)
    IN  IF fault = "openCrds"
        THEN [err |-> ErrOpenCrds, file |-> "absent", funcs |-> <<>>,
              paths |-> paths]
        ELSE IF fault = "renderCrds"
        THEN [err |-> ErrRenderCrds, file |-> "opened", funcs |-> <<>>,
              paths |-> paths]
        ELSE [err |-> ErrNone, file |-> "written", funcs |-> funcs,
              paths |-> paths]

\* outcome of a call of Generate that returned before any file was opened
EarlyReturn(err, found, fresh) ==
    [done |-> TRUE, fresh |-> fresh, err |-> err, kindsFound |-> found,
     schemeFile |-> "absent", crdsFile |-> "absent",
     calls |-> <<>>, funcs |-> <<>>]

\* Generator.Generate.  choice holds what the environment decides: the
\* operation that fails if it is reached (fault) and the iteration order of
\* the three maps; fresh tells whether the registry was empty at the call.
\* The result is the outcome and the import paths handed to the registry.
GenerateRun(gen, context, choice, fresh) ==
    LET crdVersions == EffectiveVersions(gen)
        found == Cardinality(context.kinds)
        loop  == KindsLoop(gen, crdVersions, choice.kindOrder, 1, EmptyMap)
        sch   == GenerateScheme(context, choice.gvOrder, choice.fault)
        out   == GenerateCrds(loop.crds, choice.verOrder, choice.fault)
    IN  IF gen.PackageName = ""
        THEN [run |-> EarlyReturn(ErrPackageName, 0, fresh), paths |-> <<>>]
        ELSE IF gen.HeaderFile # "" /\ choice.fault = "readFile"
        THEN [run |-> EarlyReturn(ErrReadFile, 0, fresh), paths |-> <<>>]
        ELSE IF ~context.metav1
        THEN [run |-> EarlyReturn(ErrNone, 0, fresh), paths |-> <<>>]
        ELSE IF found = 0
        THEN [run |-> EarlyReturn(ErrNone, 0, fresh), paths |-> <<>>]
        ELSE IF loop.err # ErrNone
        THEN [run |-> EarlyReturn(loop.err, found, fresh), paths |-> <<>>]
        ELSE IF sch.err # ErrNone
        THEN [run |-> [EarlyReturn(sch.err, found, fresh)
                        EXCEPT !.schemeFile = sch.file],
              paths |-> <<>>]
        ELSE [run |-> [done |-> TRUE, fresh |-> fresh, err |-> out.err,
                       kindsFound |-> found,
                       schemeFile |-> sch.file, crdsFile |-> out.file,
                       calls |-> sch.calls, funcs |-> out.funcs],
              paths |-> out.paths]

----------------------------------------------------------------------------
(* The inputs of the generation driver                                     *)

\* longest CRDVersions list
MaxVersions == 2

VersionChoices == {V1, V1beta1, V2}

SeqsUpTo(S, n) == UNION {[1..m -> S] : m \in 0..n}

\* a Generator with a package name and a header file, in every combination
\* of the other fields; and the same without one or the other
Generators ==
    [PackageName : {"crds"},
     HeaderFile : {"boilerplate.go.txt"},
     TrivialVersions : BOOLEAN,
     PreserveUnknownFields : {"nil", "true", "false"},
     CRDVersions : SeqsUpTo(VersionChoices, MaxVersions)]
    \cup
    [PackageName : {"", "crds"},
     HeaderFile : {"", "boilerplate.go.txt"},
     TrivialVersions : {FALSE},
     PreserveUnknownFields : {"nil", "true"},
     CRDVersions : {<<>>, <<V1beta1>>}]

\* roots without metav1, roots without kinds, one kind and two packages with
\* a group-version, two kinds and metav1's package among the group-versions
Contexts ==
    {[metav1 |-> FALSE, metav1Pkg |-> "none", kinds |-> {}, gvs |-> {}],
     [metav1 |-> TRUE, metav1Pkg |-> "metav1", kinds |-> {}, gvs |-> {"api1"}],
     [metav1 |-> TRUE, metav1Pkg |-> "metav1", kinds |-> {"Foo"},
      gvs |-> {"api1", "api2"}],
     [metav1 |-> TRUE, metav1Pkg |-> "metav1", kinds |-> {"Foo", "Bar"},
      gvs |-> {"api1", "metav1"}]}

Faults == {"none", "readFile", "openScheme", "renderScheme", "openCrds",
           "renderCrds"}

\* the orders in which a Go map may yield the keys S
Orders(S) ==
    {o \in [1..Cardinality(S) -> S] :
        \A i \in DOMAIN o : \A j \in DOMAIN o : i # j => o[i] # o[j]}

Range(f) == {f[i] : i \in DOMAIN f}

----------------------------------------------------------------------------
(* Specification of the generation driver                                  *)

InitGen ==
    /\ RegistryInit
    /\ g \in Generators
    /\ ctx \in Contexts
    /\ last = NoRun
    /\ prev = NoRun
    /\ CollapseIdle
    /\ SerializerIdle

\* the call returned nil after rendering both files
WroteBoth(run) ==
    /\ run.done
    /\ run.err = ErrNone
    /\ run.schemeFile = "written"
    /\ run.crdsFile = "written"

\* one call of Generate, from its first statement to its return
Generate ==
    \E fresh \in {byPath = EmptyMap /\ byAlias = EmptyMap} :
    \E fault \in Faults :
    \E kindOrder \in Orders(ctx.kinds) :
    \E gvOrder \in Orders(ctx.gvs) :
    \E verOrder \in Orders(Range(EffectiveVersions(g))) :
    \E r \in {GenerateRun(g, ctx,
                  [fault |-> fault, kindOrder |-> kindOrder,
                   gvOrder |-> gvOrder, verOrder |-> verOrder],
                  fresh)} :
    \E reg \in {NeedImports(byPath, byAlias, r.paths,
                    [arg |-> arg, ret |-> ret, cands |-> cands])} :
        /\ last' = r.run
        /\ prev' = IF WroteBoth(last) /\ last.fresh THEN last ELSE prev
        /\ byPath' = reg.byPath
        /\ byAlias' = reg.byAlias
        /\ arg' = reg.lastCall.arg
        /\ ret' = reg.lastCall.ret
        /\ cands' = reg.lastCall.cands
        /\ UNCHANGED <<g, ctx>>
        /\ UNCHANGED crdVars
        /\ UNCHANGED valVars

\* a new process: the package-level variable imports is initialised again
Restart ==
    /\ byPath' = EmptyMap
    /\ byAlias' = EmptyMap
    /\ arg' = EmptyStr
    /\ ret' = EmptyStr
    /\ cands' = <<>>
    /\ UNCHANGED <<g, ctx, last, prev>>
    /\ UNCHANGED crdVars
    /\ UNCHANGED valVars

NextGen == Generate \/ Restart

SpecGen == InitGen /\ [][NextGen]_vars

----------------------------------------------------------------------------
(* toTrivialVersions                                                       *)

\* a nil pointer or a nil slice
Nil == "nil"

\* the loop with its two halves swapped: each version is cleared before
\* its fields are read
CanonicalAfterClear(versions, n) ==
    [Schema |-> Nil, Subresources |-> Nil, AdditionalPrinterColumns |-> Nil]

\* The loop over crd.Spec.Versions seen from its end: the canonical schema,
\* subresources and columns are those of the last version marked as
\* storage among the first n, nil if there is none.
RECURSIVE Canonical(_, _)
Canonical(versions, n) ==
    IF n = 0
    THEN [Schema |-> Nil, Subresources |-> Nil, AdditionalPrinterColumns |-> Nil]
    ELSE IF versions[n].Storage
    THEN [Schema |-> versions[n].Schema,
          Subresources |-> versions[n].Subresources,
          AdditionalPrinterColumns |-> versions[n].AdditionalPrinterColumns]
    ELSE Canonical(versions, n - 1)

\* the three assignments that end the loop body
Cleared(ver) ==
    [ver EXCEPT !.Schema = Nil, !.Subresources = Nil,
                !.AdditionalPrinterColumns = Nil]

\* toTrivialVersions on the Spec of a v1beta1 descriptor
ToTrivialVersions(spec) ==
    LET canonical == Canonical(spec.Versions, Len(spec.Versions))
        stripped  == [spec EXCEPT
                        !.Versions = [i \in 1..Len(spec.Versions) |->
                                        Cleared(spec.Versions[i])]]
    IN  IF canonical.Schema = Nil
        THEN stripped
        ELSE [stripped EXCEPT
                !.Validation = canonical.Schema,
                !.Subresources = canonical.Subresources,
                !.AdditionalPrinterColumns = canonical.AdditionalPrinterColumns]

\* most versions of a descriptor
MaxCrdVersions == 2

Schemas == {Nil, "schemaA", "schemaB"}

SubresourceChoices == {Nil, "subresourcesA"}

ColumnChoices == {Nil, "columnsA"}

CrdVersions ==
    [Storage : BOOLEAN, Schema : Schemas, Subresources : SubresourceChoices,
     AdditionalPrinterColumns : ColumnChoices]

Descriptors ==
    [Validation : Schemas, Subresources : SubresourceChoices,
     AdditionalPrinterColumns : ColumnChoices,
     Versions : SeqsUpTo(CrdVersions, MaxCrdVersions)]

InitTrivial ==
    /\ RegistryInit
    /\ DriverIdle
    /\ SerializerIdle
    /\ orig \in Descriptors
    /\ crd = orig
    /\ collapsed = FALSE

\* the call toTrivialVersions(crd) made by Generate for a v1beta1 descriptor
Collapse ==
    /\ ~collapsed
    /\ crd' = ToTrivialVersions(crd)
    /\ collapsed' = TRUE
    /\ UNCHANGED orig
    /\ UNCHANGED genVars
    /\ UNCHANGED valVars

NextTrivial == Collapse

SpecTrivial == InitTrivial /\ [][NextTrivial]_vars

\* the versions of a descriptor that are marked as storage
StorageVersions(spec) ==
    {i \in 1..Len(spec.Versions) : spec.Versions[i].Storage}

\* the one storage version
TheStorage(spec) == spec.Versions[CHOOSE i \in StorageVersions(spec) : TRUE]

\* top-level fields equal the storage version's original fields, and every
\* version that is not the storage version has its fields cleared
CollapsedToStorage ==
    /\ crd.Validation = TheStorage(orig).Schema
    /\ crd.Subresources = TheStorage(orig).Subresources
    /\ crd.AdditionalPrinterColumns = TheStorage(orig).AdditionalPrinterColumns
    /\ \A i \in 1..Len(crd.Versions) :
            i \notin StorageVersions(orig) =>
                /\ crd.Versions[i].Schema = Nil
                /\ crd.Versions[i].Subresources = Nil
                /\ crd.Versions[i].AdditionalPrinterColumns = Nil

----------------------------------------------------------------------------
(* Claims about the generation driver                                      *)

\* C4: every call of Generate starts on a registry without bindings.
C4_FreshRegistry == last.done => last.fresh

\* C5: two calls of Generate on the same Generator and context, each begun
\* on an empty registry and each rendering both files, emit the same
\* registration calls and the same functions with the same lists.
C5_Deterministic ==
    (WroteBoth(last) /\ last.fresh /\ prev.done) =>
        /\ last.calls = prev.calls
        /\ last.funcs = prev.funcs

\* C6: a call that returns an error has rendered neither file, and a call
\* that returns nil after finding a kind has rendered both.
C6_AllOrNothing ==
    last.done =>
        /\ last.err # ErrNone =>
                last.schemeFile # "written" /\ last.crdsFile # "written"
        /\ (last.err = ErrNone /\ last.kindsFound >= 1) =>
                last.schemeFile = "written" /\ last.crdsFile = "written"

----------------------------------------------------------------------------
(* GenerateValue                                                           *)

\* A reflect.Type is a record: kind, PkgPath (pkg), Name, and Elem for a
\* pointer, slice or channel, or the fields for a struct.  A value of kind
\*   int, string   is the number or the string,
\*   ptr           is <<>> when nil and <<x>> when it points to x,
\*   slice         is [nil, elems],
\*   struct        is a function from the field names to the field values,
\*   interface     is <<>> when nil and <<x>> when it holds x.

TInt == [kind |-> "int", pkg |-> EmptyStr, name |-> "int"]

TInterface == [kind |-> "interface", pkg |-> EmptyStr, name |-> ""]

PtrTo(t) == [kind |-> "ptr", pkg |-> EmptyStr, name |-> "", elem |-> t]

SliceOf(t) == [kind |-> "slice", pkg |-> EmptyStr, name |-> "", elem |-> t]

StructType(pkg, name, fields) ==
    [kind |-> "struct", pkg |-> pkg, name |-> name, fields |-> fields]

\* a reflect.StructField
Field(name, type, exported) ==
    [name |-> name, type |-> type, exported |-> exported]

LiteralKinds == {"bool", "int", "string", "float64", "uintptr"}

\* reflection.IsLiteralType
IsLiteralType(t) == t.kind \in LiteralKinds

\* reflection.IsCustomType: a named type that is not the builtin of its kind
IsCustomType(t) == t.pkg # EmptyStr

\* reflection.IsAnonymousStruct: a struct type without a name
IsAnonymousStruct(t) == t.kind = "struct" /\ t.name = ""

\* reflection.IsUnexportedField
IsUnexportedField(field) == ~field.exported

\* reflection.HasUnexportedField
HasUnexportedField(t) ==
    \E i \in 1..Len(t.fields) : IsUnexportedField(t.fields[i])

FieldNames(t) == {t.fields[i].name : i \in 1..Len(t.fields)}

FieldNamed(t, n) ==
    t.fields[CHOOSE i \in 1..Len(t.fields) : t.fields[i].name = n]

\* the zero value of a type
RECURSIVE Zero(_)
Zero(t) ==
    CASE t.kind = "int" -> 0
      [] t.kind = "string" -> ""
      [] t.kind = "slice" -> [nil |-> TRUE, elems |-> <<>>]
      [] t.kind = "struct" ->
            [n \in FieldNames(t) |-> Zero(FieldNamed(t, n).type)]
      [] OTHER -> <<>>

\* reflect.Value.IsZero
IsZero(v, t) == v = Zero(t)

\* the package of the pointer helpers, and the package of the sample types
PointerPkg == <<"g", "i", "t", "h", "u", "b", ".", "c", "o", "m", "/", "z", "o", "u", "m", "o", "/", "g", "o", "l", "i", "b", "/", "p", "o", "i", "n", "t", "e", "r">>

SamplePkg == <<"m", "/", "a", "p", "i">>

\* a statement that renders nothing: the nil *jen.Statement
NullExpr == [op |-> "null"]

\* no statement: the call panicked
PanicExpr == [op |-> "panic"]

\* the statement a call returned and the import paths it handed to the
\* registry, in the order of the calls
Returned(e, paths) == [e |-> e, paths |-> paths, panic |-> FALSE]

\* v.Type() on the zero reflect.Value, which v.Elem() of a nil pointer is
Panicked(paths) == [e |-> PanicExpr, paths |-> paths, panic |-> TRUE]

\* the same outcome after the import paths of the calls made before it
After(paths, r) == [r EXCEPT !.paths = paths \o r.paths]

\* generateType: the statement is the type itself, the effect is the
\* sequence of paths handed to imports.Qual
RECURSIVE generateType(_)
generateType(t) ==
    CASE t.kind \in {"ptr", "slice", "chan"} -> generateType(t.elem)
      [] t.kind = "struct" -> <<t.pkg>>
      [] t.kind = "func" -> <<>>
      [] OTHER -> IF IsCustomType(t) THEN <<t.pkg>> ELSE <<>>

\* generateLiteralValue: jen.Lit of the value, inside a conversion to the
\* type when the type is a custom one
generateLiteralValue(v, t) ==
    Returned([op |-> "lit", conv |-> IsCustomType(t), v |-> v],
             IF IsCustomType(t) THEN <<t.pkg>> ELSE <<>>)

\* generatePtrLiteralValue: a call of the pointer helper of the kind
generatePtrLiteralValue(v, t) ==
    Returned([op |-> "ptrlit", conv |-> IsCustomType(t), v |-> v],
             <<PointerPkg>>)

\* generateStructWithUnexportedField for a type that implements neither
\* json.Marshaler nor json.Unmarshaler, as all the sample types: it qualifies
\* the type and returns nil
generateStructWithUnexportedField(t) == <<t.pkg>>

\* the type statement of generateStructValue
RECURSIVE FieldTypes(_, _)
FieldTypes(t, i) ==
    IF i > Len(t.fields) THEN <<>>
    ELSE generateType(t.fields[i].type) \o FieldTypes(t, i + 1)

StructTypePaths(t) ==
    IF IsAnonymousStruct(t) THEN FieldTypes(t, 1) ELSE <<t.pkg>>

RECURSIVE generateValue(_, _, _)
RECURSIVE generatePtrValue(_, _, _)
RECURSIVE generateStructValue(_, _, _, _)
RECURSIVE DictFields(_, _, _, _)
RECURSIVE SliceValues(_, _, _, _)

\* the loop of the jen.DictFunc callback from field i on; acc holds the
\* entries made and the paths registered so far
DictFields(v, t, i, acc) ==
    IF i > Len(t.fields) THEN acc
    ELSE LET field == t.fields[i]
         IN  IF IsUnexportedField(field) \/ IsAnonymousStruct(field.type)
             THEN DictFields(v, t, i + 1, acc)
             ELSE IF IsZero(v[field.name], field.type)
             THEN DictFields(v, t, i + 1, acc)
             ELSE LET r == generateValue(v[field.name], field.type, FALSE)
                  IN  IF r.panic
                      THEN Panicked(acc.paths \o r.paths)
                      ELSE DictFields(v, t, i + 1,
                               [acc EXCEPT
                                  !.e = MapPut(acc.e, field.name, r.e),
                                  !.paths = acc.paths \o r.paths])

generateStructValue(v, t, ptrResult, omitType) ==
    LET fallback == IF HasUnexportedField(t)
                    THEN generateStructWithUnexportedField(t)
                    ELSE <<>>
        ts       == StructTypePaths(t)
        dict     == DictFields(v, t, 1, Returned(<<>>, <<>>))
    IN  IF dict.panic
        THEN After(fallback \o ts, dict)
        ELSE Returned([op |-> "struct",
                       typed |-> ~omitType,
                       amp |-> ptrResult /\ ~omitType,
                       fields |-> dict.e],
                      fallback \o ts \o dict.paths)

\* the loop of the ValuesFunc callback from element i on
SliceValues(elems, te, i, acc) ==
    IF i > Len(elems) THEN acc
    ELSE LET r == generateValue(elems[i], te, TRUE)
         IN  IF r.panic
             THEN Panicked(acc.paths \o r.paths)
             ELSE SliceValues(elems, te, i + 1,
                      [acc EXCEPT !.e = Append(acc.e, r.e),
                                  !.paths = acc.paths \o r.paths])

generatePtrValue(v, t, omitType) ==
    LET te == t.elem
    IN  IF v = <<>>
        THEN Panicked(<<>>)
        ELSE IF IsLiteralType(te)
        THEN generatePtrLiteralValue(v[1], te)
        ELSE IF te.kind = "struct"
        THEN generateStructValue(v[1], te, TRUE, omitType)
        ELSE LET dropped == IF omitType
                            THEN generateValue(v[1], te, TRUE)
                            ELSE Returned(NullExpr, <<>>)
                 inner   == generateValue(v[1], te, FALSE)
             IN  IF dropped.panic THEN dropped
                 ELSE IF inner.panic THEN After(dropped.paths, inner)
                 ELSE Returned([op |-> "addr", e |-> inner.e],
                               dropped.paths \o inner.paths)

generateValue(v, t, omitType) ==
    IF IsLiteralType(t)
    THEN generateLiteralValue(v, t)
    ELSE LET ts == generateType(t)
         IN  CASE t.kind = "ptr" ->
                    After(ts, generatePtrValue(v, t, omitType))
               [] t.kind = "slice" ->
                    LET vals == SliceValues(v.elems, t.elem, 1,
                                            Returned(<<>>, <<>>))
                    IN  IF vals.panic
                        THEN After(ts, vals)
                        ELSE Returned([op |-> "slice", typed |-> ~omitType,
                                       elems |-> vals.e],
                                      ts \o vals.paths)
               [] t.kind = "struct" ->
                    After(ts, generateStructValue(v, t, FALSE, omitType))
               [] OTHER -> Returned(NullExpr, ts)

\* GenerateValue(i) for an i of type t
GenerateValue(v, t) == generateValue(v, t, FALSE)

----------------------------------------------------------------------------
(* The value of an emitted literal                                         *)

\* The value the Go expression e denotes where a value of type t is
\* expected: ok tells whether e is an expression of that type at all.  A
\* composite literal gives the fields it does not list their zero value,
\* an entry or element whose statement is null is not rendered, and an
\* element without a type takes the element type of the enclosing literal,
\* with & when that is a pointer type.
RECURSIVE Eval(_, _)
RECURSIVE EvalElems(_, _, _)

Rendered(e) == e.op # "null"

EvalElems(elems, te, i) ==
    IF i > Len(elems) THEN [ok |-> TRUE, v |-> <<>>]
    ELSE LET rest == EvalElems(elems, te, i + 1)
         IN  IF ~Rendered(elems[i]) THEN rest
             ELSE LET one == Eval(elems[i], te)
                  IN  [ok |-> one.ok /\ rest.ok, v |-> <<one.v>> \o rest.v]

Eval(e, t) ==
    CASE e.op = "lit" -> [ok |-> IsLiteralType(t), v |-> e.v]
      [] e.op = "ptrlit" -> [ok |-> t.kind = "ptr", v |-> <<e.v>>]
      [] e.op = "struct" ->
            LET st   == IF t.kind = "ptr" THEN t.elem ELSE t
                here == {n \in DOMAIN e.fields : Rendered(e.fields[n])}
                body == [n \in FieldNames(st) |->
                           IF n \in here
                           THEN Eval(e.fields[n], FieldNamed(st, n).type).v
                           ELSE Zero(FieldNamed(st, n).type)]
                ok   == /\ st.kind = "struct"
                        /\ \A n \in here :
                              Eval(e.fields[n], FieldNamed(st, n).type).ok
            IN  IF t.kind = "ptr"
                THEN [ok |-> ok /\ (e.amp \/ ~e.typed), v |-> <<body>>]
                ELSE [ok |-> ok /\ ~e.amp, v |-> body]
      [] e.op = "slice" ->
            LET vals == EvalElems(e.elems, t.elem, 1)
            IN  [ok |-> t.kind = "slice" /\ vals.ok,
                 v |-> [nil |-> FALSE, elems |-> vals.v]]
      [] e.op = "addr" ->
            LET inner == Eval(e.e, t.elem)
            IN  [ok |-> /\ t.kind = "ptr"
                        /\ e.e.op \in {"struct", "slice"}
                        /\ inner.ok,
                 v |-> <<inner.v>>]
      [] OTHER -> [ok |-> FALSE, v |-> NoValue]

----------------------------------------------------------------------------
(* The values handed to GenerateValue                                      *)

MaxSliceLen == 1

\* type Inner struct { X int }
TInner == StructType(SamplePkg, "Inner", <<Field("X", TInt, TRUE)>>)

\* struct { X int }
TAnonymous == StructType(EmptyStr, "", <<Field("X", TInt, TRUE)>>)

\* type Outer struct { A int; P *int; I Inner; Q *Inner; L []Inner;
\*                     N []*int; M *[]int; An struct{ X int }; F interface{} }
TOuter ==
    StructType(SamplePkg, "Outer",
        <<Field("A", TInt, TRUE),
          Field("P", PtrTo(TInt), TRUE),
          Field("I", TInner, TRUE),
          Field("Q", PtrTo(TInner), TRUE),
          Field("L", SliceOf(TInner), TRUE),
          Field("N", SliceOf(PtrTo(TInt)), TRUE),
          Field("M", PtrTo(SliceOf(TInt)), TRUE),
          Field("An", TAnonymous, TRUE),
          Field("F", TInterface, TRUE)>>)

\* type Kind string
TKind == [kind |-> "string", pkg |-> SamplePkg, name |-> "Kind"]

\* type Private struct { K Kind; R *Kind; b int }
TPrivate ==
    StructType(SamplePkg, "Private",
        <<Field("K", TKind, TRUE),
          Field("R", PtrTo(TKind), TRUE),
          Field("b", TInt, FALSE)>>)

\* the values of a type, slices up to MaxSliceLen elements
RECURSIVE ValuesOf(_)
RECURSIVE StructValues(_, _)

StructValues(t, i) ==
    IF i = 0 THEN {EmptyMap}
    ELSE {MapPut(rec, t.fields[i].name, v) :
            rec \in StructValues(t, i - 1), v \in ValuesOf(t.fields[i].type)}

ValuesOf(t) ==
    CASE t.kind = "int" -> {0, 1}
      [] t.kind = "string" -> {"", "a"}
      [] t.kind = "ptr" -> {<<>>} \cup {<<x>> : x \in ValuesOf(t.elem)}
      [] t.kind = "slice" ->
            {[nil |-> TRUE, elems |-> <<>>]} \cup
            {[nil |-> FALSE, elems |-> s] :
                s \in SeqsUpTo(ValuesOf(t.elem), MaxSliceLen)}
      [] t.kind = "interface" -> {<<>>, <<1>>}
      [] t.kind = "struct" -> StructValues(t, Len(t.fields))

SampleTypes == {TOuter, TPrivate}

InitValue ==
    /\ RegistryInit
    /\ DriverIdle
    /\ CollapseIdle
    /\ typ \in SampleTypes
    /\ val \in ValuesOf(typ)
    /\ expr = NoValue
    /\ serialized = FALSE

\* one call of GenerateValue(val)
Serialize ==
    /\ ~serialized
    /\ \E r \in {GenerateValue(val, typ)} :
       \E reg \in {NeedImports(byPath, byAlias, r.paths,
                       [arg |-> arg, ret |-> ret, cands |-> cands])} :
            /\ expr' = r.e
            /\ serialized' = TRUE
            /\ byPath' = reg.byPath
            /\ byAlias' = reg.byAlias
            /\ arg' = reg.lastCall.arg
            /\ ret' = reg.lastCall.ret
            /\ cands' = reg.lastCall.cands
    /\ UNCHANGED <<val, typ>>
    /\ UNCHANGED <<g, ctx, last, prev>>
    /\ UNCHANGED crdVars

NextValue == Serialize

SpecValue == InitValue /\ [][NextValue]_vars

----------------------------------------------------------------------------
(* Claims about GenerateValue                                              *)

\* no private, channel-kind or function-kind field at any depth
RECURSIVE Reconstructible(_)
Reconstructible(t) ==
    CASE t.kind = "struct" ->
            \A i \in 1..Len(t.fields) :
                /\ t.fields[i].exported
                /\ t.fields[i].type.kind \notin {"chan", "func"}
                /\ Reconstructible(t.fields[i].type)
      [] t.kind \in {"ptr", "slice"} -> Reconstructible(t.elem)
      [] OTHER -> TRUE

\* C9: for a struct value without private, channel-kind or function-kind
\* fields at any depth, the literal GenerateValue emits evaluates to a value
\* equal to the original: every exported field with a non-zero value is in
\* the emitted field list, and the fields absent from it hold their type's
\* zero value.
C9_RoundTrip ==
    (serialized /\ Reconstructible(typ)) =>
        /\ expr.op = "struct"
        /\ \A n \in FieldNames(typ) :
              (n \in DOMAIN expr.fields /\ Rendered(expr.fields[n]))
                  <=> ~IsZero(val[n], FieldNamed(typ, n).type)
        /\ Eval(expr, typ).ok
        /\ Eval(expr, typ).v = val

====
